---- MODULE Spec2Model ----
(***************************************************************************)
(* Model of "Test Script Code/Testing GUI.py": the serial command/response *)
(* client SerialComm (open, close, is_open, send_cmd under one lock), the   *)
(* device on the other end of the serial line, and the DAQGui workers that  *)
(* call the client (the asynchronous command wrapper, the guided            *)
(* calibration and the full automated test).                                *)
(***************************************************************************)
EXTENDS Integers, Sequences, FiniteSets, TLC

\* ------------------------------------------------------------------ bounds
NumThreads == 2      \* threads of the process
MaxCalls   == 3      \* calls the free callers make on the SerialComm
MaxFaults  == 1      \* misbehaviours of the line: no reply in time, an I/O error
MaxLen     == 4      \* symbols in a reply line, before its newline
MaxEvents  == 3      \* operator actions and line faults in one session of the GUI
MaxWeightLen == 2    \* symbols the operator types into the weight box

\* ------------------------------------------------------- program constants
READ_TIMEOUT  == 5
CMD_TIMEOUT   == 15
STEP_TIMEOUT  == 3    \* the timeout of the test steps and of READ
REC_TIMEOUT   == 5    \* the timeout of START, STOP and LIST_FILES
NumReads      == 4    \* for i in range(4)
NumRecReads   == 6    \* for i in range(6)

\* The threads of the DAQGui: the Tk main loop, and the threads it starts
\* (lines 290, 354), numbered in the order they are started.
MainThread == 1
Workers    == {2, 3}
Callers    == 1..NumThreads
Threads    == Callers \cup {MainThread} \cup Workers
None    == 0          \* Python's None, for self.ser and for the lock's owner

\* A command: a verb and an optional argument (a sequence of characters).
Cmd(v)       == [verb |-> v, arg |-> <<>>]
CmdArg(v, a) == [verb |-> v, arg |-> a]

\* ------------------------------------------------- reply lines and decoding
\* A reply line is a sequence of lexical symbols: "{" and "}", "k" (a quoted
\* key and its colon), "v" (a scalar JSON value), "x" (any other text), " "
\* (blank), and the newline that ends the line.
Symbols    == {"{", "}", "k", "v", "x", " "}
Whitespace == {" ", "\n"}

RECURSIVE LStrip(_)
LStrip(s) == IF s # <<>> /\ Head(s) \in Whitespace THEN LStrip(Tail(s)) ELSE s

RECURSIVE RStrip(_)
RStrip(s) ==
    IF s # <<>> /\ s[Len(s)] \in Whitespace THEN RStrip(SubSeq(s, 1, Len(s) - 1)) ELSE s

\* raw.decode('utf-8', errors='replace').strip()
Strip(s) == RStrip(LStrip(s))

IsWs(c) == c \in Whitespace
NotWs(c) == c \notin Whitespace

\* The JSON grammar over the symbols: a value is a scalar or an object, an
\* object is empty or holds one key and its value; blanks between tokens are
\* skipped.
RECURSIVE ValidValue(_)
ValidValue(ts) ==
    \/ ts = <<"v">>
    \/ /\ Len(ts) >= 2
       /\ ts[1] = "{"
       /\ ts[Len(ts)] = "}"
       /\ \/ Len(ts) = 2
          \/ /\ Len(ts) >= 4
             /\ ts[2] = "k"
             /\ ValidValue(SubSeq(ts, 3, Len(ts) - 1))

\* json.loads(line): the decoded value (its tokens), or a raised exception.
JsonRaises(line) == ~ValidValue(SelectSeq(line, NotWs))
JsonLoads(line)  == SelectSeq(line, NotWs)

\* re.search(r'\{.*\}', line): the leftmost match, as long as it can be;
\* <<>> when there is none (m is None).
RegexSearchLazy(line) ==
    LET starts == {i \in 1..Len(line) :
                     line[i] = "{" /\ \E j \in (i+1)..Len(line) : line[j] = "}"}
    IN  IF starts = {} THEN <<>>
        ELSE LET i == CHOOSE a \in starts : \A b \in starts : a <= b
                 ends == {j \in (i+1)..Len(line) : line[j] = "}"}
                 j == CHOOSE a \in ends : \A b \in ends : a <= b
             IN  SubSeq(line, i, j)

RegexSearch(line) ==
    LET starts == {i \in 1..Len(line) :
                     line[i] = "{" /\ \E j \in (i+1)..Len(line) : line[j] = "}"}
    IN  IF starts = {} THEN <<>>
        ELSE LET i == CHOOSE a \in starts : \A b \in starts : a <= b
                 ends == {j \in (i+1)..Len(line) : line[j] = "}"}
                 j == CHOOSE a \in ends : \A b \in ends : a >= b
             IN  SubSeq(line, i, j)

\* Lines 80-89 of send_cmd: parsed, with <<>> for None.
ParseLine(line) ==
    IF ~JsonRaises(line) THEN JsonLoads(line)
    ELSE LET m == RegexSearch(line)
         IN  IF m # <<>> /\ ~JsonRaises(m) THEN JsonLoads(m) ELSE <<>>

RECURSIVE SeqsUpTo(_, _)
SeqsUpTo(S, n) ==
    IF n = 0 THEN {<<>>}
    ELSE LET shorter == SeqsUpTo(S, n - 1)
         IN  shorter \cup {Append(s, c) : s \in {x \in shorter : Len(x) = n - 1}, c \in S}

\* What readline can return when it returns bytes: a line of at most MaxLen
\* symbols with its newline, or (the timeout cut it) without.
AllRaw ==
    LET bodies == SeqsUpTo(Symbols, MaxLen)
    IN  {Append(b, "\n") : b \in bodies} \cup (bodies \ {<<>>})

OkReply     == <<"{", "k", "v", "}", "\n">>
NoisyReply  == <<"x", "{", "}", "x", "\n">>
PlainReply  == <<"x", "\n">>
SampleReplies == {OkReply, PlainReply}

\* ------------------------------------------------------------------- state
VARIABLES
    ser,          \* SerialComm.ser: None or the handle (its number) it holds
    lock,         \* SerialComm.lock: None or the thread that holds it
    handles,      \* the serial.Serial objects created: [is_open, timeout, close_failed]
    inbuf,        \* the port's input buffer: reply lines received, not yet read
    pending,      \* commands the device has received and not yet answered
    chan,         \* trace of the I/O done on the port
    faults,       \* misbehaviours of the line so far
    calls,        \* calls made by the free callers so far
    pc,           \* where each thread is inside SerialComm
    call,         \* each thread's current call: operation, cmd, timeout
    old_timeout,  \* send_cmd's local old_timeout
    raw,          \* send_cmd's local raw, with the exception readline raised
    ret,          \* what each thread's last call returned or raised
    pre,          \* the connection as each send_cmd found it on entry
    task,         \* what each thread of the DAQGui runs, and where it is in it
    events,       \* the Responses pane: the entries appended, in order
    dialogs,      \* the message boxes shown, in order
    issued,       \* the send_cmd calls made by the workers, in order
    chk_save_test,\* the "Create test recording file on SD" checkbox
    clicks,       \* operator actions handled by the main loop so far
    cw            \* the guided calibration run: the operator's answers, its end

connVars   == <<ser, handles>>
devVars    == <<inbuf, pending>>
localVars  == <<old_timeout, raw>>
guiVars    == <<task, events, dialogs, issued, chk_save_test, clicks, cw>>
vars == <<ser, lock, handles, inbuf, pending, chan, faults, calls, pc, call,
          old_timeout, raw, ret, pre, task, events, dialogs, issued,
          chk_save_test, clicks, cw>>

NoCall == [op |-> "none", cmd |-> Cmd(""), timeout |-> 0]
NoRaw  == [src |-> 0, bytes |-> <<>>, err |-> FALSE, at |-> 0]
NoRet  == [kind |-> "none", parsed |-> <<>>, line |-> <<>>, src |-> 0,
           timeout |-> 0, cmd |-> Cmd(""), after |-> 0, open |-> FALSE]
NoPre  == [open |-> FALSE, timeout |-> 0, nchan |-> 0, ser |-> None,
           stale |-> 0, discarded |-> FALSE]

\* self.ser and self.ser.is_open (lines 33, 50, 54)
IsOpen == ser # None /\ handles[ser].is_open
AnyOpen == \E h \in 1..Len(handles) : handles[h].is_open
CurTimeout == IF ser = None THEN 0 ELSE handles[ser].timeout

NoTask == [role |-> "none", at |-> "", n |-> 0, cmd |-> Cmd(""), timeout |-> 0,
           cb |-> FALSE, opted |-> FALSE, nfail |-> 0, cbs |-> <<>>]
NoCw   == [state |-> "none", tare |-> FALSE, weight |-> [given |-> FALSE, text |-> <<>>],
           written |-> 0]

\* SerialComm.__init__ (lines 27-29), no thread inside any call.
InitComm ==
    /\ ser = None
    /\ lock = None
    /\ handles = <<>>
    /\ inbuf = <<>>
    /\ pending = <<>>
    /\ chan = <<>>
    /\ calls = 0
    /\ pc = [t \in Threads |-> "idle"]
    /\ call = [t \in Threads |-> NoCall]
    /\ old_timeout = [t \in Threads |-> 0]
    /\ raw = [t \in Threads |-> NoRaw]
    /\ ret = [t \in Threads |-> NoRet]
    /\ pre = [t \in Threads |-> NoPre]

\* The line has not misbehaved yet.
InitTransport == InitComm /\ faults = 0

\* A thread enters a method of SerialComm: it waits for the lock.
Enter(t, op, cmd, timeout) ==
    /\ pc' = [pc EXCEPT ![t] = "lock"]
    /\ call' = [call EXCEPT ![t] = [op |-> op, cmd |-> cmd, timeout |-> timeout]]
    /\ ret' = [ret EXCEPT ![t] = NoRet]

\* What the environment may still do: the line misbehave, the operator act.
CanFault == faults < MaxFaults /\ clicks + faults < MaxEvents
CanClick == clicks + faults < MaxEvents

\* The mutant of CanAcquire: entering without waiting for the lock.
CanAcquireNoWait(t, op) == pc[t] = "lock" /\ call[t].op = op

\* "with self.lock:" (lines 32, 40, 49, 53): the thread waiting to enter
\* method op enters once the lock is free.
CanAcquire(t, op) == pc[t] = "lock" /\ call[t].op = op /\ lock = None

\* The connection as a send_cmd finds it on entry.
Found == [open |-> IsOpen, timeout |-> CurTimeout, nchan |-> Len(chan), ser |-> ser,
          stale |-> Len(inbuf), discarded |-> FALSE]

\* The mutant of Leave: the lock is released on return only, an exception
\* leaving the method with the lock held.
LeaveHoldsOnError(t, r) ==
    /\ pc' = [pc EXCEPT ![t] = "ret"]
    /\ ret' = [ret EXCEPT ![t] = r]
    /\ lock' = IF r.kind \in {"ok", "True", "False", "None"} THEN None ELSE t

\* Leaving the with block, by return or by exception: the lock is released.
Leave(t, r) ==
    /\ pc' = [pc EXCEPT ![t] = "ret"]
    /\ ret' = [ret EXCEPT ![t] = r]
    /\ lock' = None

Result(kind) == [NoRet EXCEPT !.kind = kind]

\* How a send_cmd ends, with the connection as it leaves it: its read
\* timeout and whether it is open.
SendResult(kind, after) == [NoRet EXCEPT !.kind = kind, !.after = after, !.open = IsOpen]

IoEvent(op, t) == [op |-> op, by |-> t, h |-> ser, cmd |-> call[t].cmd]

\* ---------------------------------------------------------------- send_cmd
\* The mutant of SendCheck: the guard tests only that a handle exists.
SendCheckHandleOnly(t) ==
    /\ CanAcquire(t, "send_cmd")
    /\ IF ser = None
         THEN /\ Leave(t, SendResult("NotConnected", CurTimeout))
              /\ pre' = [pre EXCEPT ![t] = Found]
              /\ UNCHANGED <<inbuf, faults, chan>>
         ELSE /\ \/ /\ inbuf' = <<>>
                    /\ pre' = [pre EXCEPT ![t] = [Found EXCEPT !.discarded = TRUE]]
                    /\ UNCHANGED faults
                 \/ /\ CanFault
                    /\ faults' = faults + 1
                    /\ pre' = [pre EXCEPT ![t] = Found]
                    /\ UNCHANGED inbuf
              /\ chan' = Append(chan, IoEvent("reset", t))
              /\ pc' = [pc EXCEPT ![t] = "sc_write"]
              /\ lock' = t
              /\ UNCHANGED ret
    /\ UNCHANGED <<connVars, pending, calls, call, localVars, guiVars>>

\* The mutant of SendCheck: reset_input_buffer() does nothing.
SendCheckNoReset(t) ==
    /\ CanAcquire(t, "send_cmd")
    /\ IF ~IsOpen
         THEN /\ Leave(t, SendResult("NotConnected", CurTimeout))
              /\ pre' = [pre EXCEPT ![t] = Found]
              /\ UNCHANGED <<inbuf, faults, chan>>
         ELSE /\ pre' = [pre EXCEPT ![t] = [Found EXCEPT !.discarded = TRUE]]
              /\ UNCHANGED <<inbuf, faults>>
              /\ chan' = Append(chan, IoEvent("reset", t))
              /\ pc' = [pc EXCEPT ![t] = "sc_write"]
              /\ lock' = t
              /\ UNCHANGED ret
    /\ UNCHANGED <<connVars, pending, calls, call, localVars, guiVars>>

\* Lines 53-59: the lock taken, raise RuntimeError("Serial port not open")
\* unless a handle is held and open; then reset_input_buffer(), an exception
\* it raises ignored.
SendCheck(t) ==
    /\ CanAcquire(t, "send_cmd")
    /\ IF ~IsOpen
         THEN /\ Leave(t, SendResult("NotConnected", CurTimeout))
              /\ pre' = [pre EXCEPT ![t] = Found]
              /\ UNCHANGED <<inbuf, faults, chan>>
         ELSE /\ \/ /\ inbuf' = <<>>
                    /\ pre' = [pre EXCEPT ![t] = [Found EXCEPT !.discarded = TRUE]]
                    /\ UNCHANGED faults
                 \/ /\ CanFault
                    /\ faults' = faults + 1
                    /\ pre' = [pre EXCEPT ![t] = Found]
                    /\ UNCHANGED inbuf
              /\ chan' = Append(chan, IoEvent("reset", t))
              /\ pc' = [pc EXCEPT ![t] = "sc_write"]
              /\ lock' = t
              /\ UNCHANGED ret
    /\ UNCHANGED <<connVars, pending, calls, call, localVars, guiVars>>

\* Lines 61-65: the command line is written in one write() call and the
\* device receives it; then old_timeout = self.ser.timeout and
\* self.ser.timeout = timeout. A write that raises leaves send_cmd.
SendWrite(t) ==
    /\ pc[t] = "sc_write"
    /\ \/ /\ chan' = Append(chan, IoEvent("write", t))
          /\ pending' = Append(pending, Len(chan) + 1)
          /\ old_timeout' = [old_timeout EXCEPT ![t] = handles[ser].timeout]
          /\ handles' = [handles EXCEPT ![ser].timeout = call[t].timeout]
          /\ pc' = [pc EXCEPT ![t] = "sc_read"]
          /\ UNCHANGED <<faults, ret, lock>>
       \/ /\ CanFault
          /\ faults' = faults + 1
          /\ Leave(t, SendResult("IOError", CurTimeout))
          /\ UNCHANGED <<chan, pending, old_timeout, handles>>
    /\ UNCHANGED <<ser, inbuf, calls, call, raw, pre, guiVars>>

\* Line 67: readline() returns the first buffered line, or nothing when the
\* timeout passes with the buffer empty, or raises.
SendRead(t) ==
    /\ pc[t] = "sc_read"
    /\ \/ /\ inbuf # <<>>
          /\ raw' = [raw EXCEPT ![t] = [src |-> Head(inbuf).src,
                                        bytes |-> Head(inbuf).bytes, err |-> FALSE,
                                        at |-> Head(inbuf).at]]
          /\ inbuf' = Tail(inbuf)
          /\ UNCHANGED faults
       \/ /\ inbuf = <<>>
          /\ CanFault
          /\ faults' = faults + 1
          /\ raw' = [raw EXCEPT ![t] = NoRaw]
          /\ UNCHANGED inbuf
       \/ /\ CanFault
          /\ faults' = faults + 1
          /\ raw' = [raw EXCEPT ![t] = [NoRaw EXCEPT !.err = TRUE]]
          /\ UNCHANGED inbuf
    /\ chan' = Append(chan, IoEvent("read", t))
    /\ pc' = [pc EXCEPT ![t] = "sc_finally"]
    /\ UNCHANGED <<connVars, lock, pending, calls, call, old_timeout, ret, pre, guiVars>>

\* The mutant of Outcome: "if raw is None" for "if not raw", so that an empty
\* read is taken for a line.
OutcomeNoneTest(t, after) ==
    LET line == Strip(raw[t].bytes)
    IN  [SendResult("ok", after) EXCEPT !.parsed = ParseLine(line),
                                        !.line = line,
                                        !.src = raw[t].src]

\* What lines 71-91 make of raw: no bytes is a TimeoutError carrying timeout
\* and cmd; else the line is decoded, trimmed and parsed, and (parsed, line)
\* returned.
Outcome(t, after) ==
    IF raw[t].bytes = <<>>
      THEN [SendResult("Timeout", after) EXCEPT !.timeout = call[t].timeout,
                                                !.cmd = call[t].cmd]
      ELSE LET line == Strip(raw[t].bytes)
           IN  [SendResult("ok", after) EXCEPT !.parsed = ParseLine(line),
                                           !.line = line,
                                           !.src = raw[t].src]

\* The mutant of SendFinish: the timeout is restored only when readline
\* returned (no try/finally).
SendFinishNoFinally(t) ==
    /\ pc[t] = "sc_finally"
    /\ IF raw[t].err
         THEN /\ Leave(t, SendResult("IOError", handles[ser].timeout))
              /\ UNCHANGED handles
         ELSE /\ handles' = [handles EXCEPT ![ser].timeout = old_timeout[t]]
              /\ Leave(t, Outcome(t, old_timeout[t]))
    /\ UNCHANGED <<ser, devVars, chan, faults, calls, call, localVars, pre, guiVars>>

\* Lines 68-91: finally: self.ser.timeout = old_timeout; then readline's
\* exception, if any, leaves send_cmd, else the outcome of the line read.
SendFinish(t) ==
    /\ pc[t] = "sc_finally"
    /\ handles' = [handles EXCEPT ![ser].timeout = old_timeout[t]]
    /\ IF raw[t].err
         THEN Leave(t, SendResult("IOError", old_timeout[t]))
         ELSE Leave(t, Outcome(t, old_timeout[t]))
    /\ UNCHANGED <<ser, devVars, chan, faults, calls, call, localVars, pre, guiVars>>

\* ------------------------------------------------------ open, close, is_open
\* Serial.close() on handle h: the handle is closed and the bytes buffered
\* for it are dropped.
ClosedHandle(h) == [handles EXCEPT ![h].is_open = FALSE]

\* Serial.close() on handle h raises: the handle stays as it is, marked.
CloseRaised(h) == [handles EXCEPT ![h].close_failed = TRUE]

\* The mutant of OpenStep: the new port is opened without closing the one held.
OpenStepNoClose(t) ==
    /\ CanAcquire(t, "open")
    /\ \/ /\ handles' = Append(handles,
                               [is_open |-> TRUE, timeout |-> call[t].timeout,
                                close_failed |-> FALSE])
          /\ ser' = Len(handles) + 1
          /\ inbuf' = <<>>
          /\ Leave(t, Result("True"))
          /\ UNCHANGED faults
       \/ /\ CanFault
          /\ faults' = faults + 1
          /\ handles' = (IF IsOpen THEN ClosedHandle(ser) ELSE handles)
          /\ inbuf' = <<>>
          /\ Leave(t, Result("IOError"))
          /\ UNCHANGED ser
       \/ /\ IsOpen
          /\ CanFault
          /\ faults' = faults + 1
          /\ \/ handles' = CloseRaised(ser) /\ UNCHANGED inbuf
             \/ /\ handles' = [ClosedHandle(ser) EXCEPT ![ser].close_failed = TRUE]
                /\ inbuf' = <<>>
          /\ Leave(t, Result("CloseError"))
          /\ UNCHANGED ser
    /\ UNCHANGED <<pending, chan, calls, call, localVars, pre, guiVars>>

\* The mutant of OpenStep: serial.Serial() is tried before the handle held is
\* closed, so that its failure leaves that handle as it was.
OpenStepOpensFirst(t) ==
    /\ CanAcquire(t, "open")
    /\ \/ /\ handles' = Append(IF IsOpen THEN ClosedHandle(ser) ELSE handles,
                               [is_open |-> TRUE, timeout |-> call[t].timeout,
                                close_failed |-> FALSE])
          /\ ser' = Len(handles) + 1
          /\ inbuf' = <<>>
          /\ Leave(t, Result("True"))
          /\ UNCHANGED faults
       \/ /\ CanFault
          /\ faults' = faults + 1
          /\ UNCHANGED <<handles, inbuf>>
          /\ Leave(t, Result("IOError"))
          /\ UNCHANGED ser
       \/ /\ IsOpen
          /\ CanFault
          /\ faults' = faults + 1
          /\ \/ handles' = CloseRaised(ser) /\ UNCHANGED inbuf
             \/ /\ handles' = [ClosedHandle(ser) EXCEPT ![ser].close_failed = TRUE]
                /\ inbuf' = <<>>
          /\ Leave(t, Result("CloseError"))
          /\ UNCHANGED ser
    /\ UNCHANGED <<pending, chan, calls, call, localVars, pre, guiVars>>

\* Lines 32-37: the lock taken, an open handle held is closed first (close() raising leaves
\* open() with that exception, the handle closed or not); then
\* serial.Serial(port, baudrate, timeout) opens the port and becomes
\* self.ser, or raises and leaves self.ser as it was.
OpenStep(t) ==
    /\ CanAcquire(t, "open")
    /\ \/ /\ handles' = Append(IF IsOpen THEN ClosedHandle(ser) ELSE handles,
                               [is_open |-> TRUE, timeout |-> call[t].timeout,
                                close_failed |-> FALSE])
          /\ ser' = Len(handles) + 1
          /\ inbuf' = <<>>
          /\ Leave(t, Result("True"))
          /\ UNCHANGED faults
       \/ /\ CanFault
          /\ faults' = faults + 1
          /\ handles' = (IF IsOpen THEN ClosedHandle(ser) ELSE handles)
          /\ inbuf' = <<>>
          /\ Leave(t, Result("IOError"))
          /\ UNCHANGED ser
       \/ /\ IsOpen
          /\ CanFault
          /\ faults' = faults + 1
          /\ \/ handles' = CloseRaised(ser) /\ UNCHANGED inbuf
             \/ /\ handles' = [ClosedHandle(ser) EXCEPT ![ser].close_failed = TRUE]
                /\ inbuf' = <<>>
          /\ Leave(t, Result("CloseError"))
          /\ UNCHANGED ser
    /\ UNCHANGED <<pending, chan, calls, call, localVars, pre, guiVars>>

\* The mutant of CloseStep: no try/except around Serial.close(), whose
\* exception leaves close() before self.ser = None.
CloseStepNoExcept(t) ==
    /\ CanAcquire(t, "close")
    /\ IF ser # None
         THEN \/ /\ handles' = ClosedHandle(ser)
                 /\ inbuf' = <<>>
                 /\ ser' = None
                 /\ Leave(t, Result("None"))
                 /\ UNCHANGED faults
              \/ /\ CanFault
                 /\ faults' = faults + 1
                 /\ handles' = CloseRaised(ser)
                 /\ Leave(t, Result("CloseError"))
                 /\ UNCHANGED <<ser, inbuf>>
         ELSE /\ Leave(t, Result("None"))
              /\ UNCHANGED <<ser, handles, inbuf, faults>>
    /\ UNCHANGED <<pending, chan, calls, call, localVars, pre, guiVars>>

\* The mutant of CloseStep: close() does not wait for the lock.
CloseStepNoLock(t) ==
    /\ CanAcquireNoWait(t, "close")
    /\ IF ser # None
         THEN /\ \/ /\ handles' = ClosedHandle(ser)
                    /\ inbuf' = <<>>
                    /\ UNCHANGED faults
                 \/ /\ CanFault
                    /\ faults' = faults + 1
                    /\ handles' = CloseRaised(ser)
                    /\ UNCHANGED inbuf
              /\ ser' = None
         ELSE UNCHANGED <<ser, handles, inbuf, faults>>
    /\ Leave(t, Result("None"))
    /\ UNCHANGED <<pending, chan, calls, call, localVars, pre, guiVars>>

\* Lines 40-46: the lock taken, a handle held is closed, an exception of close() swallowed
\* (the handle closed or not), and self.ser becomes None.
CloseStep(t) ==
    /\ CanAcquire(t, "close")
    /\ IF ser # None
         THEN /\ \/ /\ handles' = ClosedHandle(ser)
                    /\ inbuf' = <<>>
                    /\ UNCHANGED faults
                 \/ /\ CanFault
                    /\ faults' = faults + 1
                    /\ handles' = CloseRaised(ser)
                    /\ UNCHANGED inbuf
              /\ ser' = None
         ELSE UNCHANGED <<ser, handles, inbuf, faults>>
    /\ Leave(t, Result("None"))
    /\ UNCHANGED <<pending, chan, calls, call, localVars, pre, guiVars>>

\* Lines 49-50: the lock taken, return self.ser is not None and self.ser.is_open.
IsOpenEval(t) ==
    /\ CanAcquire(t, "is_open")
    /\ Leave(t, Result(IF IsOpen THEN "True" ELSE "False"))
    /\ UNCHANGED <<connVars, devVars, chan, faults, calls, call, localVars, pre, guiVars>>

\* ------------------------------------------------------------------ device
\* The device answers the oldest command it has not answered yet with one
\* line out of R; the line lands in the input buffer of the open port, after
\* the I/O done on the port so far.
DeviceReply(R) ==
    /\ pending # <<>>
    /\ AnyOpen
    /\ \E r \in R :
         inbuf' = Append(inbuf, [src |-> Head(pending), bytes |-> r, at |-> Len(chan)])
    /\ pending' = Tail(pending)
    /\ UNCHANGED <<connVars, lock, chan, faults, calls, pc, call, localVars, ret, pre, guiVars>>

\* --------------------------------------------------------- the free callers
\* Any thread calls any method of the one SerialComm, MaxCalls times in all.
SendArgs == {<<Cmd("PING"), STEP_TIMEOUT>>, <<Cmd("TARE"), CMD_TIMEOUT>>}

CallOpen(t) ==
    /\ pc[t] = "idle"
    /\ calls < MaxCalls
    /\ calls' = calls + 1
    /\ Enter(t, "open", Cmd(""), READ_TIMEOUT)
    /\ UNCHANGED <<connVars, lock, devVars, chan, faults, localVars, pre, guiVars>>

CallClose(t) ==
    /\ pc[t] = "idle"
    /\ calls < MaxCalls
    /\ calls' = calls + 1
    /\ Enter(t, "close", Cmd(""), 0)
    /\ UNCHANGED <<connVars, lock, devVars, chan, faults, localVars, pre, guiVars>>

CallIsOpen(t) ==
    /\ pc[t] = "idle"
    /\ calls < MaxCalls
    /\ calls' = calls + 1
    /\ Enter(t, "is_open", Cmd(""), 0)
    /\ UNCHANGED <<connVars, lock, devVars, chan, faults, localVars, pre, guiVars>>

CallSend(t) ==
    /\ pc[t] = "idle"
    /\ calls < MaxCalls
    /\ calls' = calls + 1
    /\ \E a \in SendArgs : Enter(t, "send_cmd", a[1], a[2])
    /\ UNCHANGED <<connVars, lock, devVars, chan, faults, localVars, pre, guiVars>>

\* The caller has taken the result: the call's frame is gone.
Forget(t) ==
    /\ pc' = [pc EXCEPT ![t] = "idle"]
    /\ call' = [call EXCEPT ![t] = NoCall]
    /\ old_timeout' = [old_timeout EXCEPT ![t] = 0]
    /\ raw' = [raw EXCEPT ![t] = NoRaw]
    /\ ret' = [ret EXCEPT ![t] = NoRet]
    /\ pre' = [pre EXCEPT ![t] = NoPre]

Return(t) ==
    /\ pc[t] = "ret"
    /\ Forget(t)
    /\ UNCHANGED <<connVars, lock, devVars, chan, faults, calls, guiVars>>

\* The steps of SerialComm's methods, whoever the caller is.
Transport(t) ==
    \/ SendCheck(t)
    \/ SendWrite(t)
    \/ SendRead(t)
    \/ SendFinish(t)
    \/ OpenStep(t)
    \/ CloseStep(t)
    \/ IsOpenEval(t)

\* DAQGui.__init__ (lines 95-106, 145): nothing logged, the checkbox ticked.
InitGui ==
    /\ task = [t \in Threads |-> IF t = MainThread
                                   THEN [NoTask EXCEPT !.role = "main", !.at = "idle"]
                                   ELSE NoTask]
    /\ events = <<>>
    /\ dialogs = <<>>
    /\ issued = <<>>
    /\ chk_save_test = TRUE
    /\ clicks = 0
    /\ cw = NoCw

Init == InitTransport /\ InitGui

Next ==
    \/ \E t \in Callers :
         \/ CallOpen(t)
         \/ CallClose(t)
         \/ CallIsOpen(t)
         \/ CallSend(t)
         \/ Return(t)
         \/ Transport(t)
    \/ DeviceReply({OkReply})

Spec == Init /\ [][Next]_vars

\* The device answers a command with any line readline can return.
AnyReply == DeviceReply(AllRaw)

\* A line that does not misbehave: it has no fault left to make.
InitDecode == InitComm /\ faults = MaxFaults /\ InitGui

\* One thread opens the port and sends commands.
NextDecode ==
    \/ CallOpen(MainThread)
    \/ CallSend(MainThread)
    \/ Return(MainThread)
    \/ SendCheck(MainThread)
    \/ SendWrite(MainThread)
    \/ SendRead(MainThread)
    \/ SendFinish(MainThread)
    \/ OpenStep(MainThread)
    \/ AnyReply

SpecDecode == InitDecode /\ [][NextDecode]_vars

\* ================================================================== DAQGui
\* ------------------------------------------------------ the Responses pane
\* str(e) of what send_cmd raised (lines 55, 72).
ErrText(r) ==
    CASE r.kind = "NotConnected" -> <<"Serial port not open">>
      [] r.kind = "Timeout" ->
            <<"No response within ", ToString(r.timeout), "s for command: ", r.cmd.verb>>
               \o r.cmd.arg
      [] OTHER -> <<"SerialException">>

\* parsed and isinstance(parsed, dict) (line 273): a non-empty JSON object.
IsDict(parsed) == Len(parsed) > 2 /\ parsed[1] = "{"

\* _log_response_plain(text) (lines 262-267)
PlainEvent(t, text) == [kind |-> "plain", by |-> t, text |-> text]

\* _log_response(raw, parsed) (lines 269-286): the summary and the pretty
\* JSON of a decoded object, else the raw line.
ResponseEvent(t, line, parsed) ==
    IF IsDict(parsed) THEN [kind |-> "summary", by |-> t, text |-> parsed]
                      ELSE [kind |-> "raw", by |-> t, text |-> line]

\* What a worker logs for the outcome r of its send_cmd: the response
\* (lines 368, 377) or the error text (lines 370, 379).
OutcomeEvent(t, r) ==
    IF r.kind = "ok" THEN ResponseEvent(t, r.line, r.parsed)
                     ELSE ResponseEvent(t, ErrText(r), <<>>)

\* A worker thread calls send_cmd.
WorkerSend(t, cmd, timeout) ==
    /\ Enter(t, "send_cmd", cmd, timeout)
    /\ issued' = Append(issued, [by |-> t, cmd |-> cmd, timeout |-> timeout])

\* threading.Thread(...).start() (lines 290-291, 354-355): the next thread.
Unborn == {t \in Workers : task[t].role = "none"}
NextWorker == CHOOSE t \in Unborn : \A u \in Unborn : t <= u

MainIdle == task[MainThread].at = "idle" /\ pc[MainThread] = "idle"
MainAt(at) == [task EXCEPT ![MainThread].at = at]

\* ---------------------------------------------------------- connect_serial
\* The operator clicks Connect/Disconnect: line 227 asks is_open().
ConnectClick ==
    /\ MainIdle
    /\ CanClick
    /\ clicks' = clicks + 1
    /\ Enter(MainThread, "is_open", Cmd(""), 0)
    /\ task' = MainAt("cs_isopen")
    /\ UNCHANGED <<connVars, lock, devVars, chan, faults, calls, localVars, pre,
                   events, dialogs, issued, chk_save_test, cw>>

\* Lines 227-243: open: close(); else, with a port selected, open().
ConnectBranch ==
    /\ task[MainThread].at = "cs_isopen"
    /\ pc[MainThread] = "ret"
    /\ IF ret[MainThread].kind = "True"
         THEN /\ Enter(MainThread, "close", Cmd(""), 0)
              /\ task' = MainAt("cs_close")
              /\ UNCHANGED <<dialogs, localVars, pre>>
         ELSE \/ /\ Enter(MainThread, "open", Cmd(""), READ_TIMEOUT)
                 /\ task' = MainAt("cs_open")
                 /\ UNCHANGED <<dialogs, localVars, pre>>
              \/ /\ Forget(MainThread)
                 /\ dialogs' = Append(dialogs, "No port")
                 /\ task' = MainAt("idle")
    /\ UNCHANGED <<connVars, lock, devVars, chan, faults, calls,
                   events, issued, chk_save_test, clicks, cw>>

\* Lines 228-232 and 244-251: after close() "Disconnected"; after open() the
\* error box, or the "Connected to" note.
ConnectDone ==
    /\ task[MainThread].at \in {"cs_close", "cs_open"}
    /\ pc[MainThread] = "ret"
    /\ IF task[MainThread].at = "cs_open"
         THEN IF ret[MainThread].kind # "True"
                THEN /\ dialogs' = Append(dialogs, "Connection error")
                     /\ UNCHANGED events
                ELSE /\ events' = Append(events, PlainEvent(MainThread, <<"Connected to">>))
                     /\ UNCHANGED dialogs
         ELSE UNCHANGED <<events, dialogs>>
    /\ Forget(MainThread)
    /\ task' = MainAt("idle")
    /\ UNCHANGED <<connVars, lock, devVars, chan, faults, calls,
                   issued, chk_save_test, clicks, cw>>

\* The operator ticks or unticks the recording checkbox (line 146).
ToggleCheck ==
    /\ MainIdle
    /\ CanClick
    /\ clicks' = clicks + 1
    /\ chk_save_test' = ~chk_save_test
    /\ UNCHANGED <<connVars, lock, devVars, chan, faults, calls, pc, call, localVars,
                   ret, pre, task, events, dialogs, issued, cw>>

\* -------------------------------------------------------- full_system_test
Steps == <<"PING", "STATUS", "TEST_TEMP", "TEST_PRESSURE">>

\* The operator clicks "Run Full Automated Test": line 351 asks is_open().
\* One run of the test is followed.
FullTestClick ==
    /\ MainIdle
    /\ CanClick
    /\ \A t \in Workers : task[t].role = "none"
    /\ clicks' = clicks + 1
    /\ Enter(MainThread, "is_open", Cmd(""), 0)
    /\ task' = MainAt("ft_isopen")
    /\ UNCHANGED <<connVars, lock, devVars, chan, faults, calls, localVars, pre,
                   events, dialogs, issued, chk_save_test, cw>>

\* The mutant of FullTestBranch: the thread is started whatever is_open()
\* answered.
FullTestBranchNoGuard ==
    /\ task[MainThread].at = "ft_isopen"
    /\ pc[MainThread] = "ret"
    /\ task' = [MainAt("idle") EXCEPT
                   ![NextWorker] = [NoTask EXCEPT !.role = "fulltest", !.at = "steps"]]
    /\ dialogs' = IF ret[MainThread].kind = "True" THEN dialogs
                                                   ELSE Append(dialogs, "Not connected")
    /\ Forget(MainThread)
    /\ UNCHANGED <<connVars, lock, devVars, chan, faults, calls,
                   events, issued, chk_save_test, clicks, cw>>

\* Lines 351-355: not open: the warning; open: the worker thread is started.
FullTestBranch ==
    /\ task[MainThread].at = "ft_isopen"
    /\ pc[MainThread] = "ret"
    /\ IF ret[MainThread].kind = "True"
         THEN /\ task' = [MainAt("idle") EXCEPT
                             ![NextWorker] = [NoTask EXCEPT !.role = "fulltest",
                                                            !.at = "steps"]]
              /\ UNCHANGED dialogs
         ELSE /\ task' = MainAt("idle")
              /\ dialogs' = Append(dialogs, "Not connected")
    /\ Forget(MainThread)
    /\ UNCHANGED <<connVars, lock, devVars, chan, faults, calls,
                   events, issued, chk_save_test, clicks, cw>>

\* The command and the timeout of the send_cmd at each place of
\* _full_test_worker (lines 359-367, 376, 385, 388, 391, 400).
FtCmd(at, n) ==
    CASE at = "steps"     -> Cmd(Steps[n + 1])
      [] at = "reads"     -> Cmd("READ")
      [] at = "start"     -> Cmd("START")
      [] at = "rec_reads" -> Cmd("READ")
      [] at = "stop"      -> Cmd("STOP")
      [] at = "list"      -> Cmd("LIST_FILES")

FtTimeout(at) == IF at \in {"start", "stop", "list"} THEN REC_TIMEOUT ELSE STEP_TIMEOUT

\* The mutant of FtAfter: the READ loop of the recording phase runs to
\* range(6) exclusive of its last round.
FtAfterShortLoop(at, n, ok) ==
    CASE at = "steps"     -> IF n + 1 < Len(Steps) THEN <<"steps", n + 1>> ELSE <<"reads", 0>>
      [] at = "reads"     -> IF n + 1 < NumReads THEN <<"reads", n + 1>> ELSE <<"chk", 0>>
      [] at = "start"     -> IF ok THEN <<"rec_reads", 0>> ELSE <<"list", 0>>
      [] at = "rec_reads" -> IF ~ok THEN <<"list", 0>>
                             ELSE IF n + 2 < NumRecReads THEN <<"rec_reads", n + 1>>
                                                         ELSE <<"stop", 0>>
      [] at = "stop"      -> <<"list", 0>>
      [] at = "list"      -> <<"done", 0>>

\* Where _full_test_worker goes after the send_cmd at (at, n) returned (ok)
\* or raised: the loops of lines 365-380 go on either way; the one try of
\* lines 384-394 is left at the first exception, for LIST_FILES.
FtAfter(at, n, ok) ==
    CASE at = "steps"     -> IF n + 1 < Len(Steps) THEN <<"steps", n + 1>> ELSE <<"reads", 0>>
      [] at = "reads"     -> IF n + 1 < NumReads THEN <<"reads", n + 1>> ELSE <<"chk", 0>>
      [] at = "start"     -> IF ok THEN <<"rec_reads", 0>> ELSE <<"list", 0>>
      [] at = "rec_reads" -> IF ~ok THEN <<"list", 0>>
                             ELSE IF n + 1 < NumRecReads THEN <<"rec_reads", n + 1>>
                                                         ELSE <<"stop", 0>>
      [] at = "stop"      -> <<"list", 0>>
      [] at = "list"      -> <<"done", 0>>

IsFullTest(t) == task[t].role = "fulltest"

\* _full_test_worker calls send_cmd (lines 367, 376, 385, 388, 391, 400).
FtCall(t) ==
    /\ IsFullTest(t)
    /\ task[t].at \in {"steps", "reads", "start", "rec_reads", "stop", "list"}
    /\ pc[t] = "idle"
    /\ WorkerSend(t, FtCmd(task[t].at, task[t].n), FtTimeout(task[t].at))
    /\ UNCHANGED <<connVars, lock, devVars, chan, faults, calls, localVars, pre,
                   task, events, dialogs, chk_save_test, clicks, cw>>

\* The mutant of FtLog: an exception of send_cmd is passed over, not logged.
FtLogNoError(t) ==
    /\ IsFullTest(t)
    /\ pc[t] = "ret"
    /\ LET ok == ret[t].kind = "ok"
           to == FtAfter(task[t].at, task[t].n, ok)
       IN  /\ events' = IF ok THEN Append(events, OutcomeEvent(t, ret[t])) ELSE events
           /\ task' = [task EXCEPT ![t].at = to[1], ![t].n = to[2],
                                   ![t].nfail = IF ok THEN @ ELSE 1]
    /\ Forget(t)
    /\ UNCHANGED <<connVars, lock, devVars, chan, faults, calls,
                   dialogs, issued, chk_save_test, clicks, cw>>

\* send_cmd returned or raised: _log_response of the response or of the error
\* text (lines 368-370, 377-379, 386, 389, 392-394, 401-403), and on.
FtLog(t) ==
    /\ IsFullTest(t)
    /\ pc[t] = "ret"
    /\ LET ok == ret[t].kind = "ok"
           to == FtAfter(task[t].at, task[t].n, ok)
       IN  /\ events' = Append(events, OutcomeEvent(t, ret[t]))
           /\ task' = [task EXCEPT ![t].at = to[1], ![t].n = to[2],
                                   ![t].nfail = IF ok THEN @ ELSE 1]
    /\ Forget(t)
    /\ UNCHANGED <<connVars, lock, devVars, chan, faults, calls,
                   dialogs, issued, chk_save_test, clicks, cw>>

\* Lines 383 and 395-396: the checkbox decides the recording phase; without
\* it the "Skipping" note is logged.
FtCheck(t) ==
    /\ IsFullTest(t)
    /\ task[t].at = "chk"
    /\ IF chk_save_test
         THEN /\ task' = [task EXCEPT ![t].at = "start", ![t].opted = TRUE]
              /\ UNCHANGED events
         ELSE /\ task' = [task EXCEPT ![t].at = "list", ![t].opted = FALSE]
              /\ events' = Append(events,
                     PlainEvent(t, <<"Skipping recording file test (user choice)">>))
    /\ UNCHANGED <<connVars, lock, devVars, chan, faults, calls, pc, call, localVars,
                   ret, pre, dialogs, issued, chk_save_test, clicks, cw>>

\* The Full Automated Test, the operator connecting and disconnecting at
\* will, the device answering every command with a JSON object or not at all.
NextFull ==
    \/ ConnectClick
    \/ ConnectBranch
    \/ ConnectDone
    \/ ToggleCheck
    \/ FullTestClick
    \/ FullTestBranch
    \/ \E t \in Workers : FtCall(t) \/ FtLog(t) \/ FtCheck(t)
    \/ \E t \in {MainThread} \cup Workers : Transport(t)
    \/ DeviceReply({OkReply})

SpecFull == Init /\ [][NextFull]_vars

\* ------------------------------------------------ calibration_walkthrough
\* What the operator can type into the weight box: any text of at most
\* MaxWeightLen of the symbols, and some longer texts.
WeightSymbols == {"0", "5", "-", ".", "a"}
LongWeights ==
    {<<"5", "0", "0", ".", "0">>, <<"a", "b", "c">>, <<"n", "a", "n">>, <<"i", "n", "f">>,
     <<" ", "5", " ">>, <<" ">>}
WeightInputs == SeqsUpTo(WeightSymbols, MaxWeightLen) \cup LongWeights

\* simpledialog.askstring (line 327): the text on OK, None on Cancel.
WeightAnswers ==
    {[given |-> FALSE, text |-> <<>>]} \cup {[given |-> TRUE, text |-> w] : w \in WeightInputs}

\* float(weight_str) (line 332): blanks around the text are dropped, a sign
\* may lead, then come "nan", "inf", "infinity", or digits with at most one
\* point and at least one digit; anything else raises ValueError.
Digits   == {"0", "5"}
Signs    == {"-", "+"}
NanText  == <<"n", "a", "n">>
InfTexts == {<<"i", "n", "f">>, <<"i", "n", "f", "i", "n", "i", "t", "y">>}

Unsigned(s) ==
    LET b == Strip(s) IN IF b # <<>> /\ b[1] \in Signs THEN Tail(b) ELSE b

IsDecimal(u) ==
    /\ \A i \in 1..Len(u) : u[i] \in Digits \cup {"."}
    /\ Cardinality({i \in 1..Len(u) : u[i] = "."}) <= 1
    /\ \E i \in 1..Len(u) : u[i] \in Digits

FloatRaises(s) == LET u == Unsigned(s) IN ~(IsDecimal(u) \/ u = NanText \/ u \in InfTexts)

RECURSIVE DropLeadingZeros(_)
DropLeadingZeros(d) ==
    IF d # <<>> /\ Head(d) = "0" THEN DropLeadingZeros(Tail(d)) ELSE d

RECURSIVE DropTrailingZeros(_)
DropTrailingZeros(d) ==
    IF d # <<>> /\ d[Len(d)] = "0" THEN DropTrailingZeros(SubSeq(d, 1, Len(d) - 1)) ELSE d

\* The float of a text float() accepts: not-a-number, an infinity, or the
\* number, held as its sign and its significant digits before and after
\* the point.
Float(s) ==
    LET b   == Strip(s)
        u   == Unsigned(s)
        neg == b # <<>> /\ b[1] = "-"
        dot == {i \in 1..Len(u) : u[i] = "."}
        p   == IF dot = {} THEN Len(u) + 1 ELSE CHOOSE i \in dot : TRUE
    IN  IF u = NanText THEN [kind |-> "nan", neg |-> FALSE, int |-> <<>>, frac |-> <<>>]
        ELSE IF u \in InfTexts THEN [kind |-> "inf", neg |-> neg, int |-> <<>>, frac |-> <<>>]
        ELSE [kind |-> "num", neg |-> neg,
              int  |-> DropLeadingZeros(SubSeq(u, 1, p - 1)),
              frac |-> DropTrailingZeros(SubSeq(u, p + 1, Len(u)))]

\* weight_val <= 0 (line 333): false for not-a-number, as every comparison
\* with it is.
LeqZero(v) ==
    CASE v.kind = "nan" -> FALSE
      [] v.kind = "inf" -> v.neg
      [] OTHER          -> v.neg \/ (v.int = <<>> /\ v.frac = <<>>)

\* f"{weight_val}" (line 348): the repr of the float.
FormatFloat(v) ==
    CASE v.kind = "nan" -> NanText
      [] v.kind = "inf" -> (IF v.neg THEN <<"-">> ELSE <<>>) \o <<"i", "n", "f">>
      [] OTHER          -> (IF v.neg THEN <<"-">> ELSE <<>>)
                           \o (IF v.int = <<>> THEN <<"0">> ELSE v.int)
                           \o <<".">>
                           \o (IF v.frac = <<>> THEN <<"0">> ELSE v.frac)

\* _run_cmd_async (lines 289-291): the thread that will run _cmd_worker.
Spawned(cmd, timeout, cb) ==
    [NoTask EXCEPT !.role = "cmd", !.at = "start", !.cmd = cmd,
                   !.timeout = timeout, !.cb = cb]

\* The number of commands written on the port so far.
NumWritten == Cardinality({i \in 1..Len(chan) : chan[i].op = "write"})

\* The operator clicks "Calibration Walkthrough": line 317 asks is_open().
\* One run that starts threads is followed.
CalClick ==
    /\ MainIdle
    /\ CanClick
    /\ \A t \in Workers : task[t].role = "none"
    /\ clicks' = clicks + 1
    /\ Enter(MainThread, "is_open", Cmd(""), 0)
    /\ task' = MainAt("cw_isopen")
    /\ cw' = [NoCw EXCEPT !.state = "started"]
    /\ UNCHANGED <<connVars, lock, devVars, chan, faults, calls, localVars, pre,
                   events, dialogs, issued, chk_save_test>>

\* Lines 317-321: not open: the warning, and out; open: the tare question.
CalBranch ==
    /\ task[MainThread].at = "cw_isopen"
    /\ pc[MainThread] = "ret"
    /\ IF ret[MainThread].kind = "True"
         THEN /\ task' = MainAt("cw_tare")
              /\ dialogs' = Append(dialogs, "Tare now?")
              /\ UNCHANGED cw
         ELSE /\ task' = MainAt("idle")
              /\ dialogs' = Append(dialogs, "Not connected")
              /\ cw' = [cw EXCEPT !.state = "notconnected", !.written = NumWritten]
    /\ Forget(MainThread)
    /\ UNCHANGED <<connVars, lock, devVars, chan, faults, calls,
                   events, issued, chk_save_test, clicks>>

\* Lines 321-326: on Yes, TARE is handed to a new thread; then the "Place
\* weight" box and the weight question.
CalTare ==
    /\ task[MainThread].at = "cw_tare"
    /\ \E yes \in BOOLEAN :
         /\ task' = IF yes
                      THEN [MainAt("cw_weight") EXCEPT
                               ![NextWorker] = Spawned(Cmd("TARE"), READ_TIMEOUT, FALSE)]
                      ELSE MainAt("cw_weight")
         /\ cw' = [cw EXCEPT !.tare = yes]
    /\ dialogs' = dialogs \o <<"Place weight", "Known weight (g)">>
    /\ UNCHANGED <<connVars, lock, devVars, chan, faults, calls, pc, call, localVars,
                   ret, pre, events, issued, chk_save_test, clicks>>

\* The mutant of CalWeight: the except of lines 335-337 without its return.
CalWeightNoReturn ==
    /\ task[MainThread].at = "cw_weight"
    /\ \E w \in WeightAnswers :
         IF ~w.given \/ w.text = <<>>
           THEN /\ dialogs' = Append(dialogs, "Cancelled")
                /\ task' = MainAt("idle")
                /\ cw' = [cw EXCEPT !.state = "cancelled", !.weight = w,
                                    !.written = NumWritten]
           ELSE IF FloatRaises(w.text)
             THEN /\ dialogs' = Append(dialogs, "Invalid value")
                  /\ task' = MainAt("idle")
                  /\ cw' = [cw EXCEPT !.state = "rejected", !.weight = w,
                                      !.written = NumWritten]
             ELSE /\ dialogs' = IF LeqZero(Float(w.text))
                                  THEN Append(dialogs, "Invalid value") ELSE dialogs
                  /\ task' = [MainAt("idle") EXCEPT
                                 ![NextWorker] =
                                     Spawned(CmdArg("CALIBRATE", FormatFloat(Float(w.text))),
                                             CMD_TIMEOUT, TRUE)]
                  /\ cw' = [cw EXCEPT !.state = IF LeqZero(Float(w.text))
                                                  THEN "rejected" ELSE "accepted",
                                      !.weight = w, !.written = NumWritten]
    /\ UNCHANGED <<connVars, lock, devVars, chan, faults, calls, pc, call, localVars,
                   ret, pre, events, issued, chk_save_test, clicks>>

\* Lines 327-348: the operator answers the weight question. No text: the
\* "Cancelled" box, and out. A text float() refuses, or a float <= 0: the
\* "Invalid value" box, and out. Else CALIBRATE with the float is handed to
\* a new thread, with CMD_TIMEOUT and the callback cb. The answer is one of
\* answers.
CalWeightOf(answers) ==
    /\ task[MainThread].at = "cw_weight"
    /\ \E w \in answers :
         IF ~w.given \/ w.text = <<>>
           THEN /\ dialogs' = Append(dialogs, "Cancelled")
                /\ task' = MainAt("idle")
                /\ cw' = [cw EXCEPT !.state = "cancelled", !.weight = w,
                                    !.written = NumWritten]
           ELSE IF FloatRaises(w.text) \/ LeqZero(Float(w.text))
             THEN /\ dialogs' = Append(dialogs, "Invalid value")
                  /\ task' = MainAt("idle")
                  /\ cw' = [cw EXCEPT !.state = "rejected", !.weight = w,
                                      !.written = NumWritten]
             ELSE /\ task' = [MainAt("idle") EXCEPT
                                 ![NextWorker] =
                                     Spawned(CmdArg("CALIBRATE", FormatFloat(Float(w.text))),
                                             CMD_TIMEOUT, TRUE)]
                  /\ cw' = [cw EXCEPT !.state = "accepted", !.weight = w,
                                      !.written = NumWritten]
                  /\ UNCHANGED dialogs
    /\ UNCHANGED <<connVars, lock, devVars, chan, faults, calls, pc, call, localVars,
                   ret, pre, events, issued, chk_save_test, clicks>>

CalWeight == CalWeightOf(WeightAnswers)

\* ------------------------------------------------------------ _cmd_worker
IsCmdWorker(t) == task[t].role = "cmd"

\* Lines 294-297: ">>> cmd" is logged and send_cmd called.
CwSend(t) ==
    /\ IsCmdWorker(t)
    /\ task[t].at = "start"
    /\ pc[t] = "idle"
    /\ events' = Append(events, PlainEvent(t, <<">>> ", task[t].cmd.verb>> \o task[t].cmd.arg))
    /\ WorkerSend(t, task[t].cmd, task[t].timeout)
    /\ task' = [task EXCEPT ![t].at = "sent"]
    /\ UNCHANGED <<connVars, lock, devVars, chan, faults, calls, localVars, pre,
                   dialogs, chk_save_test, clicks, cw>>

\* resp.get("ok") (line 342) of the decoded object: the value of its key.
GetOk(parsed) == Len(parsed) > 2

\* What cb (lines 338-346) shows for a response: the success or the error
\* box; resp.get raises AttributeError on a response that is no object.
CbRaises(parsed) == parsed = <<>> \/ parsed[1] # "{"
CbBox(parsed) == IF GetOk(parsed) THEN "Calibration success" ELSE "Calibration error"

\* The two entries of the except branch (lines 303-304).
ErrorEvents(t, text) ==
    <<PlainEvent(t, <<"<<< ERROR: ">> \o text), ResponseEvent(t, text, <<>>)>>

\* One call of the callback: its first argument, and the number of entries
\* of the Responses pane when it is made.
CbCall(ok, evs) == [ok |-> ok, at |-> Len(evs)]

\* Lines 297-308: send_cmd returned: the response is logged and the callback
\* called with it; send_cmd raised, or the callback did: the error is logged
\* twice and the callback called with it.
CwDone(t) ==
    /\ IsCmdWorker(t)
    /\ task[t].at = "sent"
    /\ pc[t] = "ret"
    /\ LET r == ret[t]
           logged == Append(events, ResponseEvent(t, r.line, r.parsed))
           caught == logged \o ErrorEvents(t, <<"AttributeError">>)
           failed == events \o ErrorEvents(t, ErrText(r))
       IN  IF r.kind = "ok"
             THEN IF ~task[t].cb
                    THEN /\ events' = logged
                         /\ task' = [task EXCEPT ![t].at = "done"]
                         /\ UNCHANGED dialogs
                    ELSE IF CbRaises(r.parsed)
                      THEN /\ events' = caught
                           /\ dialogs' = Append(dialogs, "Calibration failed")
                           /\ task' = [task EXCEPT ![t].at = "done",
                                          ![t].cbs = <<CbCall(TRUE, logged),
                                                       CbCall(FALSE, caught)>>]
                      ELSE /\ events' = logged
                           /\ dialogs' = Append(dialogs, CbBox(r.parsed))
                           /\ task' = [task EXCEPT ![t].at = "done",
                                          ![t].cbs = <<CbCall(TRUE, logged)>>]
             ELSE /\ events' = failed
                  /\ IF task[t].cb
                       THEN /\ dialogs' = Append(dialogs, "Calibration failed")
                            /\ task' = [task EXCEPT ![t].at = "done",
                                           ![t].cbs = <<CbCall(FALSE, failed)>>]
                       ELSE /\ task' = [task EXCEPT ![t].at = "done"]
                            /\ UNCHANGED dialogs
    /\ Forget(t)
    /\ UNCHANGED <<connVars, lock, devVars, chan, faults, calls,
                   issued, chk_save_test, clicks, cw>>

\* The guided calibration, the operator connecting and disconnecting at
\* will, the device answering with a JSON object, with plain text or not
\* at all.
NextCal ==
    \/ ConnectClick
    \/ ConnectBranch
    \/ ConnectDone
    \/ CalClick
    \/ CalBranch
    \/ CalTare
    \/ CalWeight
    \/ \E t \in Workers : CwSend(t) \/ CwDone(t)
    \/ \E t \in {MainThread} \cup Workers : Transport(t)
    \/ DeviceReply(SampleReplies)

SpecCal == Init /\ [][NextCal]_vars

\* The main thread alone: the operator connects, disconnects and starts the
\* workflows; the threads the workflows start are not followed.
NextStart ==
    \/ ConnectClick
    \/ ConnectBranch
    \/ ConnectDone
    \/ FullTestClick
    \/ FullTestBranch
    \/ CalClick
    \/ CalBranch
    \/ CalTare
    \/ CalWeight
    \/ OpenStep(MainThread)
    \/ CloseStep(MainThread)
    \/ IsOpenEval(MainThread)

SpecStart == Init /\ [][NextStart]_vars

\* The answers followed where every thread is: no text, a text that is no
\* number, a weight.
ShortAnswers ==
    {[given |-> FALSE, text |-> <<>>],
     [given |-> TRUE, text |-> <<"a", "b", "c">>],
     [given |-> TRUE, text |-> <<"5", "0", "0", ".", "0">>]}

CalWeightShort == CalWeightOf(ShortAnswers)

\* A line that has one fault left to make.
InitLive == InitComm /\ faults = MaxFaults - 1 /\ InitGui

\* The whole window: connecting, the Full Automated Test and the guided
\* calibration, whichever the operator clicks.
NextLive ==
    \/ ConnectClick
    \/ ConnectBranch
    \/ ConnectDone
    \/ FullTestClick
    \/ FullTestBranch
    \/ CalClick
    \/ CalBranch
    \/ CalTare
    \/ CalWeightShort
    \/ \E t \in Workers : FtCall(t) \/ FtLog(t) \/ FtCheck(t) \/ CwSend(t) \/ CwDone(t)
    \/ \E t \in {MainThread} \cup Workers : Transport(t)
    \/ DeviceReply({OkReply})

\* What thread t can do next: a step of the method of SerialComm it is in,
\* or of the worker it runs.
Step(t) ==
    \/ Transport(t)
    \/ FtCall(t)
    \/ FtLog(t)
    \/ FtCheck(t)
    \/ CwSend(t)
    \/ CwDone(t)

\* Every thread goes on running, a thread waiting for the lock getting it if
\* it is free again and again; readline returns, with the line the device
\* sent or without; the device answers.
Fairness ==
    /\ \A t \in {MainThread} \cup Workers : SF_vars(Step(t))
    /\ WF_vars(DeviceReply({OkReply}))

SpecLive == InitLive /\ [][NextLive]_vars /\ Fairness

\* ================================================================== claims
\* The I/O events thread t has put on the port since it entered its call.
MyIo(t, op) ==
    {i \in (pre[t].nchan + 1)..Len(chan) : chan[i].by = t /\ chan[i].op = op}

InLocked(t) == pc[t] \in {"sc_write", "sc_read", "sc_finally"}
SendEnded(t) == pc[t] = "ret" /\ call[t].op = "send_cmd"

\* C1: at most one thread is inside a locked section of the SerialComm at any
\* time, and it is the holder of the lock; on the port, between the write of
\* one send_cmd and the return of its own readline no other thread's reset,
\* write or read occurs.
C1_MutualExclusion ==
    /\ Cardinality({t \in Threads : InLocked(t)}) <= 1
    /\ \A t \in Threads : InLocked(t) => lock = t
    /\ \A i \in 1..Len(chan) : \A j \in (i+1)..Len(chan) :
         (chan[i].op = "write" /\ chan[j].by # chan[i].by)
            => \E k \in (i+1)..(j-1) : chan[k].by = chan[i].by /\ chan[k].op = "read"

\* A send_cmd is between its write and its readline while another thread
\* waits for the lock to send a command of its own.
C1_Witness ==
    \E t \in Threads, u \in Threads :
        /\ t # u
        /\ pc[t] = "sc_read"
        /\ pc[u] = "lock"
        /\ call[u].op = "send_cmd"

\* C2: a send_cmd that finds no handle, or a handle that is not open, fails
\* with the not-open error having done no I/O (no reset, no write, no read)
\* and having left the read timeout alone; I/O is done on an open handle only.
C2_NotConnectedGuard ==
    \A t \in Threads :
        /\ pc[t] \in {"sc_write", "sc_read", "sc_finally"} => IsOpen
        /\ (SendEnded(t) /\ ~pre[t].open) =>
              /\ ret[t].kind = "NotConnected"
              /\ MyIo(t, "reset") \cup MyIo(t, "write") \cup MyIo(t, "read") = {}
              /\ ret[t].after = pre[t].timeout
        /\ (SendEnded(t) /\ ret[t].kind = "NotConnected") => ~pre[t].open

\* A send_cmd has failed with the not-open error on a handle that open()
\* closed before its own serial.Serial() failed.
C2_Witness ==
    \E t \in Threads :
        /\ SendEnded(t)
        /\ ret[t].kind = "NotConnected"
        /\ pre[t].ser # None

\* C6: however send_cmd ends (a reply, no bytes, readline raising), the read
\* timeout it leaves is the one it found; the per-call timeout is in force
\* during its readline only, the timeout given to open() at any other time.
C6_TimeoutScoped ==
    /\ \A t \in Threads :
         /\ SendEnded(t) => ret[t].after = pre[t].timeout
         /\ pc[t] = "sc_read" => handles[ser].timeout = call[t].timeout
    /\ (ser # None /\ \A t \in Threads : pc[t] \notin {"sc_read", "sc_finally"})
          => handles[ser].timeout = READ_TIMEOUT

\* A send_cmd whose readline raised has ended.
C6_Witness ==
    \E t \in Threads :
        /\ SendEnded(t)
        /\ ret[t].kind = "IOError"
        /\ MyIo(t, "read") # {}
        /\ call[t].timeout # READ_TIMEOUT

\* C7: on an open connection send_cmd fails with Timeout exactly when its
\* readline returned no bytes; the command was then written once, the error
\* carries the call's timeout and command, the lock is free of the caller and
\* the connection is left open.
ReadNothing(t) == MyIo(t, "read") # {} /\ ~raw[t].err /\ raw[t].bytes = <<>>

C7_TimeoutOutcome ==
    \A t \in Threads :
        SendEnded(t) =>
            /\ (ret[t].kind = "Timeout") <=> ReadNothing(t)
            /\ ret[t].kind = "Timeout" =>
                  /\ pre[t].open
                  /\ Cardinality(MyIo(t, "write")) = 1
                  /\ Cardinality(MyIo(t, "read")) = 1
                  /\ ret[t].timeout = call[t].timeout
                  /\ ret[t].cmd = call[t].cmd
                  /\ ret[t].open
                  /\ lock # t

\* After one send_cmd timed out, another thread's send_cmd has passed the
\* not-open guard on the same connection.
C7_Witness ==
    \E t \in Threads, u \in Threads :
        /\ t # u
        /\ SendEnded(t)
        /\ ret[t].kind = "Timeout"
        /\ pc[u] = "sc_write"
        /\ pre[u].ser = pre[t].ser

\* ------------------------------------------------- the Full Automated Test
\* The order of the commands of a run in which every step succeeds, with and
\* without the recording phase.
FullSequence(opted) ==
    <<"PING", "STATUS", "TEST_TEMP", "TEST_PRESSURE", "READ", "READ", "READ", "READ">>
    \o (IF opted THEN <<"START", "READ", "READ", "READ", "READ", "READ", "READ", "STOP">>
                 ELSE <<>>)
    \o <<"LIST_FILES">>

IsPrefix(a, b) == Len(a) <= Len(b) /\ a = SubSeq(b, 1, Len(a))

VerbsOf(evs) == [i \in 1..Len(evs) |-> evs[i].cmd.verb]

\* The send_cmd calls thread t made, the commands it wrote on the port, and
\* the entries it appended to the Responses pane.
IssuedBy(t) == LET Mine(e) == e.by = t IN SelectSeq(issued, Mine)
WrittenBy(t) == LET Mine(e) == e.by = t /\ e.op = "write" IN SelectSeq(chan, Mine)
LoggedBy(t) == LET Mine(e) == e.by = t IN SelectSeq(events, Mine)
OutcomesBy(t) == LET Mine(e) == e.by = t /\ e.kind # "plain" IN SelectSeq(events, Mine)

FtDone(t) == IsFullTest(t) /\ task[t].at = "done"

\* C3 (as claimed): whatever the outcomes of the steps, a run of the full
\* test that has ended has issued the commands of the all-success run.
C3_AllStepsWhateverFails ==
    \A t \in Workers :
        FtDone(t) => VerbsOf(IssuedBy(t)) = FullSequence(task[t].opted)

\* C4: as long as every step of a run has succeeded, the commands it wrote
\* are the first ones of PING, STATUS, TEST_TEMP, TEST_PRESSURE, READ x4,
\* [START, READ x6, STOP,] LIST_FILES, and all of them once it has ended; a
\* run not opted in has logged its eight responses, one plain note and the
\* response to LIST_FILES, in this order; a run opted in no plain note.
C4_OrderWhenAllSucceed ==
    \A t \in Workers :
        (IsFullTest(t) /\ task[t].nfail = 0) =>
            /\ \/ IsPrefix(VerbsOf(WrittenBy(t)), FullSequence(TRUE))
               \/ IsPrefix(VerbsOf(WrittenBy(t)), FullSequence(FALSE))
            /\ FtDone(t) =>
                  /\ VerbsOf(WrittenBy(t)) = FullSequence(task[t].opted)
                  /\ LET kinds == [i \in 1..Len(LoggedBy(t)) |-> LoggedBy(t)[i].kind = "plain"]
                     IN  IF task[t].opted
                           THEN kinds = [i \in 1..17 |-> FALSE]
                           ELSE kinds = [i \in 1..10 |-> i = 9]

\* A run opted in has ended with every step a success.
C4_Witness ==
    \E t \in Workers :
        /\ FtDone(t)
        /\ task[t].nfail = 0
        /\ task[t].opted
        /\ Len(WrittenBy(t)) = 17

\* C5: a run of the full test has appended one response or error entry for
\* each send_cmd that has ended, and none for the one under way: the entry is
\* appended after the call ends and before the next call is made; the entry
\* of a Timeout names the command of the call it stands for.
C5_OneEventPerStep ==
    \A t \in Workers :
        IsFullTest(t) =>
            /\ Len(OutcomesBy(t)) = Len(IssuedBy(t)) - (IF pc[t] = "idle" THEN 0 ELSE 1)
            /\ \A i \in 1..Len(OutcomesBy(t)) :
                  OutcomesBy(t)[i].text[1] = "No response within "
                     => OutcomesBy(t)[i].text[4] = IssuedBy(t)[i].cmd.verb

\* A run with a failed step has ended, the error logged among the responses.
C5_Witness ==
    \E t \in Workers :
        /\ FtDone(t)
        /\ task[t].nfail = 1
        /\ \E i \in 1..Len(OutcomesBy(t)) : OutcomesBy(t)[i].kind = "raw"
        /\ \E i \in 1..Len(OutcomesBy(t)) : OutcomesBy(t)[i].kind = "summary"

\* ---------------------------------------------------------------- decoding
\* line is bytes without the whitespace at its two ends.
IsTrimOf(line, bytes) ==
    \E i \in 1..(Len(bytes) + 1) : \E j \in 0..Len(bytes) :
        /\ line = SubSeq(bytes, i, j)
        /\ \A k \in 1..(i - 1) : bytes[k] \in Whitespace
        /\ \A k \in (j + 1)..Len(bytes) : bytes[k] \in Whitespace
        /\ line # <<>> => (line[1] \notin Whitespace /\ line[Len(line)] \notin Whitespace)

\* The decoded value the policy gives for a line: that of the whole line; else
\* that of the text from the first "{" to the last "}"; else none.
Decoded(line) ==
    LET opens  == {i \in 1..Len(line) : line[i] = "{"}
        closes == {i \in 1..Len(line) : line[i] = "}"}
        first  == CHOOSE i \in opens : \A k \in opens : i <= k
        last   == CHOOSE i \in closes : \A k \in closes : i >= k
    IN  IF ~JsonRaises(line) THEN JsonLoads(line)
        ELSE IF opens # {} /\ closes # {} /\ first < last
                 /\ ~JsonRaises(SubSeq(line, first, last))
               THEN JsonLoads(SubSeq(line, first, last))
               ELSE <<>>

\* C8: a send_cmd whose readline returned at least one byte returns
\* (decoded, raw): raw the whole reply line trimmed, decoded the value of the
\* whole line, else of the text from its first "{" to its last "}", else
\* none; noise around an object yields the object and the full line, plain
\* text yields no value and the text.
C8_DecodeTolerance ==
    \A t \in Threads :
        (SendEnded(t) /\ MyIo(t, "read") # {} /\ ~raw[t].err /\ raw[t].bytes # <<>>) =>
            /\ ret[t].kind = "ok"
            /\ IsTrimOf(ret[t].line, raw[t].bytes)
            /\ ret[t].parsed = Decoded(ret[t].line)
            /\ raw[t].bytes = NoisyReply =>
                  ret[t].parsed = <<"{", "}">> /\ ret[t].line = <<"x", "{", "}", "x">>
            /\ raw[t].bytes = PlainReply =>
                  ret[t].parsed = <<>> /\ ret[t].line = <<"x">>

\* A send_cmd has returned the object found inside a line that is no JSON as
\* a whole, and the line.
C8_Witness ==
    \E t \in Threads :
        /\ SendEnded(t)
        /\ ret[t].kind = "ok"
        /\ JsonRaises(ret[t].line)
        /\ ret[t].parsed = <<"{", "}">>
        /\ Len(ret[t].line) < Len(raw[t].bytes)

\* ---------------------------------------------------- guided calibration
\* The CALIBRATE commands handed to send_cmd and those written on the port.
IsCalibrate(e) == e.cmd.verb = "CALIBRATE"
CalIssued == SelectSeq(issued, IsCalibrate)
CalWritten == LET W(e) == e.op = "write" /\ e.cmd.verb = "CALIBRATE" IN SelectSeq(chan, W)
CalTasks == {t \in Workers : task[t].role = "cmd" /\ task[t].cmd.verb = "CALIBRATE"}
WeightEntered == cw.state \in {"cancelled", "rejected", "accepted"}

\* A text is numeric when, blanks around it and a leading sign apart, it is
\* made of digits with at most one point; it is then zero when no digit of it
\* is other than 0, and negative when its sign is "-".
Numeric(w) ==
    LET b == Strip(w)
        u == IF b # <<>> /\ b[1] \in {"-", "+"} THEN Tail(b) ELSE b
    IN  /\ \E i \in 1..Len(u) : u[i] \in {"0", "5"}
        /\ \A i \in 1..Len(u) : u[i] \in {"0", "5", "."}
        /\ Cardinality({i \in 1..Len(u) : u[i] = "."}) <= 1
Malformed(w) ==
    \/ w = <<>>
    \/ ~Numeric(w)
    \/ \A i \in 1..Len(w) : w[i] # "5"
    \/ Strip(w)[1] = "-"

\* C9 (as claimed): a weight that is empty, non-numeric, zero or negative
\* ends the workflow with no CALIBRATE command ever handed over or written;
\* a valid positive weight hands exactly one CALIBRATE <weight> to a thread,
\* with the extended timeout, "500.0" as CALIBRATE 500.0; the command is
\* never sent a second time.
C9_CalibrationValidation ==
    /\ Len(CalIssued) <= 1
    /\ Len(CalWritten) <= 1
    /\ (WeightEntered /\ Malformed(cw.weight.text)) =>
          /\ CalTasks = {}
          /\ CalIssued = <<>>
          /\ CalWritten = <<>>
    /\ (WeightEntered /\ ~Malformed(cw.weight.text)) =>
          /\ Cardinality(CalTasks) = 1
          /\ \A t \in CalTasks :
                /\ task[t].timeout = CMD_TIMEOUT
                /\ task[t].cmd.arg = FormatFloat(Float(cw.weight.text))
                /\ cw.weight.text = <<"5", "0", "0", ".", "0">>
                      => task[t].cmd.arg = <<"5", "0", "0", ".", "0">>
                /\ task[t].at = "done" =>
                      /\ Len(CalIssued) = 1
                      /\ CalIssued[1] = [by |-> t, cmd |-> task[t].cmd, timeout |-> CMD_TIMEOUT]

\* C10 (as claimed): a workflow that has rejected the weight has written no
\* command at all by the time it ends.
C10_NoCommandBeforeRejection ==
    cw.state = "rejected" => cw.written = 0

\* C10 (amended): a workflow that has rejected the weight hands no CALIBRATE
\* command to any thread, so none is ever written; the one command it can
\* have written by the time it ends, and the one that can be written after,
\* is the TARE the operator said Yes to; nothing is written when the
\* operator said No.
C10_NoCalibrateAfterRejection ==
    cw.state = "rejected" =>
        /\ CalTasks = {}
        /\ CalIssued = <<>>
        /\ \A i \in 1..Len(chan) : chan[i].op = "write" => chan[i].cmd = Cmd("TARE")
        /\ NumWritten <= (IF cw.tare THEN 1 ELSE 0)
        /\ cw.written <= NumWritten

\* A workflow has rejected the weight after the TARE it started was written.
C10_Witness ==
    /\ cw.state = "rejected"
    /\ cw.tare
    /\ cw.written = 1
    /\ cw.weight.text = <<"-", "5">>

\* -------------------------------------------------- starting a workflow
\* The main thread holds the answer False of the is_open() that
\* calibration_walkthrough or full_system_test asked on entry.
RejectsStart ==
    /\ task[MainThread].at \in {"cw_isopen", "ft_isopen"}
    /\ pc[MainThread] = "ret"
    /\ ret[MainThread].kind = "False"

\* C11: a workflow invoked while is_open() is false returns at once: its
\* next step is back in the main loop with the "Not connected" warning shown,
\* no thread started, nothing handed to send_cmd, nothing written on the
\* port and nothing appended to the Responses pane.
C11_RejectWhenDisconnected ==
    [][(RejectsStart /\ task'[MainThread] # task[MainThread]) =>
          /\ task'[MainThread].at = "idle"
          /\ pc'[MainThread] = "idle"
          /\ \A t \in Workers : task'[t] = task[t]
          /\ dialogs' = Append(dialogs, "Not connected")
          /\ issued' = issued
          /\ chan' = chan
          /\ events' = events
          /\ pending' = pending]_vars

\* A workflow was refused on a port that had been connected and disconnected:
\* the warning is the last box shown and no thread exists.
C11_Witness ==
    /\ dialogs # <<>>
    /\ dialogs[Len(dialogs)] = "Not connected"
    /\ MainIdle
    /\ handles # <<>>
    /\ \A t \in Workers : task[t].role = "none"
    /\ issued = <<>>

\* ------------------------------------------------------ one connection
OpenHandles == {h \in 1..Len(handles) : handles[h].is_open}

\* C12 (as claimed): at most one handle the SerialComm created is open.
C12_AtMostOneOpen == Cardinality(OpenHandles) <= 1

\* C12 (amended): the SerialComm holds at most one handle; an open handle it
\* does not hold is one it dropped in close() after Serial.close() raised on
\* it, so that with no such failure at most one handle is open, open() having
\* closed the handle held before creating the next; a send_cmd does its I/O
\* on the handle held, which is open.
C12_SingleConnection ==
    /\ \A h \in OpenHandles : h = ser \/ handles[h].close_failed
    /\ (\A h \in 1..Len(handles) : ~handles[h].close_failed) => Cardinality(OpenHandles) <= 1
    /\ ser # None => ser \in 1..Len(handles)
    /\ \A h \in 1..Len(handles) : (h # ser /\ ~handles[h].close_failed) => ~handles[h].is_open
    /\ \A t \in Threads :
          InLocked(t) =>
              /\ IsOpen
              /\ \A i \in MyIo(t, "reset") \cup MyIo(t, "write") \cup MyIo(t, "read") :
                    chan[i].h = ser

\* Two open() calls and no other call: the first handle is closed, the second
\* open and held.
C12_Witness ==
    /\ calls = 2
    /\ Len(handles) = 2
    /\ ~handles[1].is_open
    /\ ~handles[1].close_failed
    /\ ser = 2
    /\ IsOpen

\* ----------------------------------------------------------- failed open
\* Thread t is at the step of open() that ends it.
OpenEnds(t) == pc[t] = "lock" /\ call[t].op = "open" /\ pc'[t] = "ret"

\* C13: when serial.Serial() raises in open(), with no handle held, a closed
\* one or an open one, the exception reaches the caller, the lock is free,
\* the SerialComm is not open as open() leaves it, and a send_cmd entered on
\* a SerialComm that is not open ends with the not-open error.
C13_FailedOpenLeavesClosed ==
    [][\A t \in Threads :
          /\ (OpenEnds(t) /\ ret'[t].kind = "IOError") =>
                /\ ~IsOpen'
                /\ lock' = None
                /\ ser' = ser
          /\ (CanAcquire(t, "send_cmd") /\ ~IsOpen /\ pc'[t] # pc[t]) =>
                /\ pc'[t] = "ret"
                /\ ret'[t].kind = "NotConnected"]_vars

\* An open() on an open SerialComm has failed in serial.Serial(): the handle
\* it holds is the prior one, closed.
C13_Witness ==
    \E t \in Threads :
        /\ pc[t] = "ret"
        /\ call[t].op = "open"
        /\ ret[t].kind = "IOError"
        /\ ser # None
        /\ ~IsOpen
        /\ lock = None

\* ------------------------------------------------------------------ close
\* Thread t is at the step of close() that ends it.
CloseEnds(t) == pc[t] = "lock" /\ call[t].op = "close" /\ pc'[t] = "ret"

\* C14: close() returns normally whatever it finds (no handle, an open one,
\* a closed one, a handle whose close raises) and leaves the SerialComm with
\* no handle, so not open, and the lock free; a close() that finds no handle,
\* as a second close() in a row does, changes nothing.
C14_CloseIdempotentTotal ==
    [][\A t \in Threads :
          CloseEnds(t) =>
              /\ ret'[t].kind = "None"
              /\ ser' = None
              /\ ~IsOpen'
              /\ lock' = None
              /\ ser = None => UNCHANGED <<handles, inbuf, pending, chan, faults>>]_vars

\* A close() has returned on a handle whose close raised and left it open.
C14_Witness ==
    \E t \in Threads :
        /\ pc[t] = "ret"
        /\ call[t].op = "close"
        /\ ret[t].kind = "None"
        /\ ser = None
        /\ \E h \in 1..Len(handles) : handles[h].close_failed /\ handles[h].is_open

\* --------------------------------------------------- completion handler
CwEnded(t) == IsCmdWorker(t) /\ task[t].at = "done"

\* C15 (as claimed): a _cmd_worker that has ended with a callback registered
\* has called it once: with the success result, the response entry being in
\* the pane, or with the failure text, the error entries being in the pane.
C15_CallbackExactlyOnce ==
    \A t \in Workers :
        (CwEnded(t) /\ task[t].cb) =>
            /\ Len(task[t].cbs) = 1
            /\ LET c == task[t].cbs[1]
                   kinds == [i \in 1..Len(LoggedBy(t)) |-> LoggedBy(t)[i].kind]
               IN  /\ events[c.at].by = t
                   /\ IF c.ok THEN Len(kinds) = 2 /\ kinds[2] # "plain"
                              ELSE kinds = <<"plain", "plain", "raw">>

\* ---------------------------------------------------- every command ends
InSend(t) == pc[t] # "idle" /\ call[t].op = "send_cmd"
AllLogged(t) == Len(OutcomesBy(t)) >= Len(IssuedBy(t))

\* C16: a worker thread that has called send_cmd gets out of it and appends
\* an entry for its outcome to the Responses pane; a thread that is not in
\* send_cmd has an entry in the pane for each send_cmd it made, so that none
\* ends with a failure of send_cmd not logged.
C16_EveryCommandEndsLogged ==
    /\ [](\A t \in Workers : pc[t] = "idle" => AllLogged(t))
    /\ \A t \in Workers : InSend(t) ~> (pc[t] = "idle" /\ AllLogged(t))

\* A worker thread has ended with the Timeout of a command in the pane.
C16_Witness ==
    \E t \in Workers :
        /\ task[t].at = "done"
        /\ pc[t] = "idle"
        /\ \E i \in 1..Len(OutcomesBy(t)) : OutcomesBy(t)[i].text[1] = "No response within "

\* ------------------------------------------------- recording is stopped
\* C17 (as claimed): a run of the full test that has written START and has
\* ended has sent STOP after it and before LIST_FILES; the least of it is
\* that STOP was handed to send_cmd between the two.
C17_StartThenStop ==
    \A t \in Workers :
        (FtDone(t) /\ \E i \in 1..Len(WrittenBy(t)) : WrittenBy(t)[i].cmd.verb = "START") =>
            LET verbs == VerbsOf(IssuedBy(t))
            IN  \E i \in 1..Len(verbs) : \E j \in (i + 1)..Len(verbs) :
                    \E k \in (j + 1)..Len(verbs) :
                        verbs[i] = "START" /\ verbs[j] = "STOP" /\ verbs[k] = "LIST_FILES"

\* ------------------------------------------------------------ stale input
\* The places in the trace of the reset and of the write of the send_cmd
\* thread t is in.
MyReset(t) == CHOOSE i \in MyIo(t, "reset") : TRUE
MyWrite(t) == CHOOSE i \in MyIo(t, "write") : TRUE
GotLine(t) == SendEnded(t) /\ ret[t].kind = "ok"

\* C18 (as claimed): the line a send_cmd returns reached the port after the
\* send_cmd wrote its command.
C18_ReplyAfterOwnWrite ==
    \A t \in Threads : GotLine(t) => raw[t].at >= MyWrite(t)

\* C18 (amended): a send_cmd on an open connection calls the discard before
\* it writes, and goes on to the write whether the discard succeeded or
\* raised; the line it returns after a discard that succeeded reached the port
\* after the discard, so that nothing buffered before the discard is returned.
C18_NoLineFromBeforeDiscard ==
    \A t \in Threads :
        /\ pc[t] \in {"sc_read", "sc_finally"} =>
              /\ Cardinality(MyIo(t, "reset")) = 1
              /\ MyReset(t) < MyWrite(t)
        /\ (SendEnded(t) /\ pre[t].open /\ MyIo(t, "write") = {}) => ret[t].kind = "IOError"
        /\ (GotLine(t) /\ pre[t].discarded) => raw[t].at >= MyReset(t)

\* A send_cmd has discarded the late reply to an earlier command and returned
\* the reply to its own.
C18_Witness ==
    \E t \in Threads :
        /\ GotLine(t)
        /\ pre[t].discarded
        /\ pre[t].stale > 0
        /\ raw[t].src = MyWrite(t)

\* ------------------------------------------------ close and open wait
\* Thread t is in send_cmd with the connection checked: before or past its
\* write, in or past its readline, and has not left the with block.
InFlight(t) == InLocked(t)
\* Thread u has called close() or open() and has not entered it.
WaitsToSwitch(u) == pc[u] = "lock" /\ call[u].op \in {"close", "open"}

\* C19: while a send_cmd is between its check of the connection and its
\* return (its write and its readline are in that window), no step closes
\* or replaces the handle it holds and a close() or open() called by another
\* thread stays where it is, with its call kept; once the lock is free the
\* waiting close() or open() can run.
C19_NoCutIn ==
    /\ [][\A t \in Threads : InFlight(t) =>
             /\ ser # None /\ ser' = ser
             /\ handles[ser].is_open /\ handles'[ser].is_open
             /\ Len(handles') = Len(handles)
             /\ \A u \in Threads \ {t} : WaitsToSwitch(u) =>
                    pc'[u] = pc[u] /\ call'[u] = call[u]]_vars
    /\ [](\A u \in Threads : (WaitsToSwitch(u) /\ lock = None) =>
             ENABLED (OpenStep(u) \/ CloseStep(u)))

\* A readline has returned a reply while a close() or open() of another thread
\* was waiting for the lock.
C19_Witness ==
    \E t \in Threads : \E u \in Threads \ {t} :
        /\ pc[t] = "sc_finally"
        /\ raw[t].bytes # <<>>
        /\ WaitsToSwitch(u)

\* ------------------------------------------------- tare, then calibrate
\* The workers that carry the TARE and the CALIBRATE of a walkthrough.
TareTasks == {t \in Workers : task[t].role = "cmd" /\ task[t].cmd.verb = "TARE"}
\* The operator confirmed the tare and entered a weight that was accepted, and
\* the two commands of this walkthrough are carried by u and t.
TaredRun(u, t) ==
    /\ cw.tare /\ cw.state = "accepted"
    /\ u \in TareTasks /\ t \in CalTasks /\ u < t

\* C20: in a walkthrough with the tare confirmed and a valid weight, CALIBRATE
\* is written only after TARE was written and its readline has returned.
C20_TareBeforeCalibrate ==
    \A u, t \in Workers : TaredRun(u, t) =>
        \A i \in MyIo(t, "write") :
            \E j \in MyIo(u, "write") : \E k \in MyIo(u, "read") : j < k /\ k < i

====
